---- MODULE Spec2Model ----
(***************************************************************************)
(* Model of the UART/DMA logger of Core/Src/log.c: the circular DMA queue  *)
(* (_usart2_tx_dma_buffer, _queue_head, _queue_tail), the in-flight count  *)
(* (_last_dma_count), logmsg(), restart_dma() and the transmit-complete    *)
(* callback HAL_UART_TxCpltCallback().                                     *)
(*                                                                         *)
(* The two sizes of log.h are scaled down (log.h keeps the author's own    *)
(* small test values in comments); every other number is the source's.     *)
(***************************************************************************)
EXTENDS Integers, Sequences, FiniteSets, TLC

\* log.h:22  #define LOG_ITEM_MAX_SIZE 128      (scaled)
LOG_ITEM_MAX_SIZE == 8
\* log.h:24  #define LOG_MAX_TEXT (LOG_ITEM_MAX_SIZE)
LOG_MAX_TEXT == LOG_ITEM_MAX_SIZE
\* log.h:25  #define LOG_DMA_BUFFER_SIZE 4096   (scaled; log.h:26 has 16)
LOG_DMA_BUFFER_SIZE == 16
\* number of messages logmsg may accept in one behaviour
MaxMsgs == 3
\* with one producer open to preemption
MaxPreemptMsgs == 4
\* and with two producers
MaxRaceMsgs == 2

\* values HAL_GetTick() returns to logmsg: one and two digits
Ticks == {7, 42}
\* would-be text lengths vsnprintf returns: empty, fits, beyond LOG_MAX_TEXT
FormatLens == {0, 2, LOG_MAX_TEXT + 1}
\* contents of the memory that follows _log_compose_buffer
AdjacentBytes == {0, 255}
\* what the UART driver does with a request of Size 0
ZeroLenOutcomes == {"rejected", "accepted"}

NUL == 0
LF == 10

VARIABLES
    queue_head,           \* _queue_head
    queue_tail,           \* _queue_tail
    last_dma_count,       \* _last_dma_count
    usart2_tx_dma_buffer, \* _usart2_tx_dma_buffer[LOG_DMA_BUFFER_SIZE]
    gState,               \* huart2 state as HAL_UART_GetState reports it
    xfer,                 \* the transfer the DMA is performing
    req,                  \* the HAL_UART_Transmit_DMA call of the last step
    call,                 \* the last handler run: inputs and return value
    nlog,                 \* messages accepted so far
    accepted,             \* bytes of the accepted messages, in order
    requested,            \* bytes of the started transfers, in order
    outstanding,          \* transfers started and not yet completed
    pure,                 \* the call of a pure function under test
    ctx                   \* each producer's place in logmsg and its locals

vars == <<queue_head, queue_tail, last_dma_count, usart2_tx_dma_buffer, gState,
          xfer, req, call, nlog, accepted, requested, outstanding, pure,
          ctx>>

logvars == <<queue_head, queue_tail, last_dma_count, usart2_tx_dma_buffer,
             gState, xfer, req, call, nlog, accepted, requested, outstanding, ctx>>

----------------------------------------------------------------------------
\* C arithmetic

\* conversion to uint16_t
U16(x) == x % 65536

Min(a, b) == IF a < b THEN a ELSE b

RECURSIVE NumDigits(_)
NumDigits(n) == IF n < 10 THEN 1 ELSE 1 + NumDigits(n \div 10)

RECURSIVE Pow10(_)
Pow10(k) == IF k = 0 THEN 1 ELSE 10 * Pow10(k - 1)

\* the j-th decimal digit of n from the left, j = 0 ..
Digit(n, j) == (n \div Pow10(NumDigits(n) - 1 - j)) % 10

\* snprintf(.., "(%lu) ", tick): the length it returns
TsLen(tick) == U16(NumDigits(tick) + 3)

\* the i-th character of "(%lu) "
TsChar(tick, i) ==
    IF i = 0 THEN 40
    ELSE IF i <= NumDigits(tick) THEN 48 + Digit(tick, i - 1)
    ELSE IF i = NumDigits(tick) + 1 THEN 41
    ELSE 32

\* the i-th character of the text of the k-th accepted message
TextChar(k, i) == 97 + k * LOG_MAX_TEXT + i

----------------------------------------------------------------------------
\* log.c

\* queue_space_available(head, tail), int arithmetic
queue_space_available(head, tail) ==
    IF head > tail
    THEN LOG_DMA_BUFFER_SIZE - (head - tail) - 1
    ELSE (tail - head) - 1

\* restart_dma: uint16_t dma_bytes
dma_bytes(head, tail) ==
    U16(IF head <= tail
        THEN tail - head
        ELSE LOG_DMA_BUFFER_SIZE - (head - tail))

\* qty_to_send without the bound at the physical end of the buffer
qty_to_send_Unbounded(head, tail) == dma_bytes(head, tail)

\* restart_dma: uint16_t qty_to_send
qty_to_send(head, tail) ==
    U16(IF dma_bytes(head, tail) > LOG_DMA_BUFFER_SIZE - head
        THEN LOG_DMA_BUFFER_SIZE - head
        ELSE dma_bytes(head, tail))

\* log_space_available with the non-wrapped expression in both cases
log_space_available_OneCase(head, tail) ==
    U16(LOG_DMA_BUFFER_SIZE - (tail - head) - 1)

\* log_space_available without the slot that is kept empty
log_space_available_NoSlot(head, tail) ==
    U16(IF head <= tail
        THEN LOG_DMA_BUFFER_SIZE - (tail - head)
        ELSE head - tail)

\* logmsg: uint16_t log_space_available
log_space_available(head, tail) ==
    U16(IF head <= tail
        THEN LOG_DMA_BUFFER_SIZE - (tail - head) - 1
        ELSE head - tail - 1)

\* logmsg: the admission test, if(log_length > log_space_available) return -1
Admits(head, tail, log_length) ==
    ~(log_length > log_space_available(head, tail))

\* logmsg: log_length from the two lengths the renderers return
LogLength(ts_len, fmt_len) ==
    LET l0 == U16(fmt_len)
        l1 == IF l0 >= LOG_MAX_TEXT THEN LOG_MAX_TEXT - 1 ELSE l0
        l2 == U16(l1 + 1)
    IN  U16(l2 + ts_len)

\* characters vsnprintf stores before its terminating null
TextStored(ts_len, fmt_len) == Min(fmt_len, LOG_MAX_TEXT - ts_len - 1)

\* _log_compose_buffer[i] when logmsg copies it, for i < log_length. An index
\* at or beyond LOG_ITEM_MAX_SIZE is the memory that follows the buffer: the
\* line feed stored there is read back by the copy, the other bytes are
\* whatever that memory holds (adj). What else the store overwrites is not
\* part of this state.
Compose(tick, fmt_len, adj, k, i) ==
    LET ts_len == TsLen(tick)
        log_length == LogLength(ts_len, fmt_len)
        stored == TextStored(ts_len, fmt_len)
    IN  IF i = log_length - 1 THEN LF
        ELSE IF i >= LOG_ITEM_MAX_SIZE THEN adj
        ELSE IF i < ts_len THEN TsChar(tick, i)
        ELSE IF i < ts_len + stored THEN TextChar(k, i - ts_len)
        ELSE IF i = ts_len + stored THEN NUL
        ELSE adj

\* the log item logmsg copies out of the compose buffer
Item(tick, fmt_len, adj, k) ==
    [j \in 1 .. LogLength(TsLen(tick), fmt_len) |->
        Compose(tick, fmt_len, adj, k, j - 1)]

\* the wrap test with > for >=
Wraps_Strict(tail, log_length) == tail + log_length > LOG_DMA_BUFFER_SIZE

\* logmsg: the wrap test of the copy
Wraps(tail, log_length) == tail + log_length >= LOG_DMA_BUFFER_SIZE

\* the copy with the second memcpy reading the compose buffer from its start
CopyToQueue_SecondFromStart(buffer, tail, item) ==
    LET n == Len(item)
        len_1 == U16(LOG_DMA_BUFFER_SIZE - tail)
    IN  [i \in 0 .. (LOG_DMA_BUFFER_SIZE - 1) |->
            IF i >= tail /\ i < tail + Min(n, len_1) THEN item[i - tail + 1]
            ELSE IF i < n - len_1 THEN item[i + 1]
            ELSE buffer[i]]

\* logmsg: the two memcpy calls, or the one
CopyToQueue(buffer, tail, item) ==
    LET n == Len(item)
        len_1 == U16(LOG_DMA_BUFFER_SIZE - tail)
    IN  IF Wraps(tail, n)
        THEN [i \in 0 .. (LOG_DMA_BUFFER_SIZE - 1) |->
                IF i >= tail /\ i < tail + len_1 THEN item[i - tail + 1]
                ELSE IF i < n - len_1 THEN item[len_1 + i + 1]
                ELSE buffer[i]]
        ELSE [i \in 0 .. (LOG_DMA_BUFFER_SIZE - 1) |->
                IF i >= tail /\ i < tail + n THEN item[i - tail + 1]
                ELSE buffer[i]]

\* the new tail of a wrapping copy set to the whole length
NewTail_WholeLength(tail, log_length) ==
    IF Wraps(tail, log_length) THEN U16(log_length) ELSE U16(tail + log_length)

\* logmsg: the new _queue_tail
NewTail(tail, log_length) ==
    IF Wraps(tail, log_length)
    THEN U16(log_length - U16(LOG_DMA_BUFFER_SIZE - tail))
    ELSE U16(tail + log_length)

\* the head advanced without the wrap at LOG_DMA_BUFFER_SIZE
AdvanceHead_NoWrap(head, count) == U16(head + count)

\* HAL_UART_TxCpltCallback: the new _queue_head
AdvanceHead(head, count) ==
    LET h == U16(head + count)
    IN  IF h >= LOG_DMA_BUFFER_SIZE THEN U16(h - LOG_DMA_BUFFER_SIZE) ELSE h

\* the count left as it was
ResetCount_Kept(count) == count

\* HAL_UART_TxCpltCallback: _last_dma_count = 0
ResetCount(count) == 0

\* the bytes the DMA reads for a request of len bytes at &buffer[off]; -1
\* stands for a byte read past the end of the buffer
Slice(buffer, off, len) ==
    [j \in 1 .. len |->
        IF off + j - 1 < LOG_DMA_BUFFER_SIZE THEN buffer[off + j - 1] ELSE -1]

NoXfer == [off |-> 0, len |-> 0]
NoReq == [made |-> FALSE, off |-> 0, len |-> 0, head |-> 0, tail |-> 0,
          state |-> "READY", ok |-> FALSE]

\* restart_dma without the test of the UART state
EngineBusy_Unchecked(state) == FALSE

\* restart_dma: the test of the UART state
EngineBusy(state) == state # "READY"

\* HAL_UART_Transmit_DMA: TRUE when the driver starts the transfer. It refuses
\* a busy UART (log.c:120); the driver's source is not part of log.c, so a
\* request of Size 0 is either refused or started and completed like any other.
DriverStarts(state, len, zl) ==
    /\ state = "READY"
    /\ (len > 0 \/ zl = "accepted")

\* restart_dma with the early return on an empty queue (log.c:112) put back
restart_dma_EarlyReturn(head, tail, count, state, xf, buffer, zl) ==
    IF EngineBusy(state) \/ dma_bytes(head, tail) = 0
    THEN [count |-> count, state |-> state, xfer |-> xf, req |-> NoReq,
          started |-> FALSE, ret |-> 0]
    ELSE LET qty == qty_to_send(head, tail)
             ok == DriverStarts(state, qty, zl)
         IN  [count |-> qty,
              state |-> IF ok THEN "BUSY_TX" ELSE state,
              xfer |-> IF ok THEN [off |-> head, len |-> qty] ELSE xf,
              req |-> [made |-> TRUE, off |-> head, len |-> qty,
                       head |-> head, tail |-> tail, state |-> state,
                       ok |-> ok],
              started |-> ok,
              ret |-> qty]

\* restart_dma() run on the given values; zl is the driver's answer to Size 0
restart_dma(head, tail, count, state, xf, buffer, zl) ==
    IF EngineBusy(state)
    THEN [count |-> count, state |-> state, xfer |-> xf, req |-> NoReq,
          started |-> FALSE, ret |-> 0]
    ELSE LET qty == qty_to_send(head, tail)
             ok == DriverStarts(state, qty, zl)
         IN  [count |-> qty,
              state |-> IF ok THEN "BUSY_TX" ELSE state,
              xfer |-> IF ok THEN [off |-> head, len |-> qty] ELSE xf,
              req |-> [made |-> TRUE, off |-> head, len |-> qty,
                       head |-> head, tail |-> tail, state |-> state,
                       ok |-> ok],
              started |-> ok,
              ret |-> qty]

NoCall == [op |-> "log_init", log_length |-> 0,
           count |-> 0, result |-> 0]

NoPure == [f |-> "none", head |-> 0, tail |-> 0, len |-> 0, out |-> 0,
           admitted |-> FALSE]

\* the contexts that call logmsg
Producers == {1, 2}

\* a producer outside logmsg. Inside, pc is the statement it is at and the
\* rest are logmsg's locals: log_length, the bytes it rendered (item), the
\* outcome of the comparison at log.c:156 (le), log_space_available (space),
\* the outcome of the wrap test at 168 (wraps), len_1, and the tail loaded
\* by the += at log.c:176 (ld). todo is the set of
\* buffer positions its accepted item is still to be copied to, and raced
\* tells that another producer was inside logmsg during one of its calls.
IdleCtx == [pc |-> "idle", log_length |-> 0, item |-> <<>>, le |-> FALSE,
            space |-> 0, wraps |-> FALSE, len_1 |-> 0, ld |-> 0, todo |-> {},
            raced |-> FALSE]

\* log_init(), with the UART idle and the DMA buffer zeroed at start-up
log_init ==
    /\ queue_head = 0
    /\ queue_tail = 0
    /\ last_dma_count = 0
    /\ usart2_tx_dma_buffer = [i \in 0 .. (LOG_DMA_BUFFER_SIZE - 1) |-> NUL]
    /\ gState = "READY"
    /\ xfer = NoXfer
    /\ req = NoReq
    /\ call = NoCall
    /\ nlog = 0
    /\ accepted = <<>>
    /\ requested = <<>>
    /\ outstanding = 0
    /\ ctx = [p \in Producers |-> IdleCtx]

Init == log_init /\ pure = NoPure

\* logmsg moving the head itself as soon as it has started a transfer
logmsg_MovesHead(tick, fmt_len, adj, zl) ==
    LET ts_len == TsLen(tick)
        log_length == LogLength(ts_len, fmt_len)
    IN  /\ nlog < MaxMsgs
        /\ IF ~Admits(queue_head, queue_tail, log_length)
           THEN /\ call' = [op |-> "logmsg", log_length |-> log_length,
                            count |-> last_dma_count, result |-> -1]
                /\ req' = NoReq
                /\ UNCHANGED <<queue_head, queue_tail, last_dma_count,
                               usart2_tx_dma_buffer, gState, xfer, nlog,
                               accepted, requested, outstanding, pure, ctx>>
           ELSE LET item == Item(tick, fmt_len, adj, nlog)
                    buffer == CopyToQueue(usart2_tx_dma_buffer, queue_tail, item)
                    tail == NewTail(queue_tail, log_length)
                    rd == restart_dma(queue_head, tail, last_dma_count,
                                      gState, xfer, buffer, zl)
                IN  /\ usart2_tx_dma_buffer' = buffer
                    /\ queue_tail' = tail
                    /\ last_dma_count' = rd.count
                    /\ gState' = rd.state
                    /\ xfer' = rd.xfer
                    /\ req' = rd.req
                    /\ requested' = IF rd.started
                                    THEN requested \o
                                         Slice(buffer, rd.xfer.off, rd.xfer.len)
                                    ELSE requested
                    /\ outstanding' = IF rd.started THEN outstanding + 1
                                      ELSE outstanding
                    /\ accepted' = accepted \o item
                    /\ nlog' = nlog + 1
                    /\ call' = [op |-> "logmsg", log_length |-> log_length,
                                count |-> rd.count, result |-> log_length]
                    /\ queue_head' = IF rd.started
                                     THEN AdvanceHead(queue_head, rd.count)
                                     ELSE queue_head
                    /\ UNCHANGED <<pure, ctx>>

\* logmsg(format, ...), run without preemption
logmsg(tick, fmt_len, adj, zl) ==
    LET ts_len == TsLen(tick)
        log_length == LogLength(ts_len, fmt_len)
    IN  /\ nlog < MaxMsgs
        /\ IF ~Admits(queue_head, queue_tail, log_length)
           THEN /\ call' = [op |-> "logmsg", log_length |-> log_length,
                            count |-> last_dma_count, result |-> -1]
                /\ req' = NoReq
                /\ UNCHANGED <<queue_head, queue_tail, last_dma_count,
                               usart2_tx_dma_buffer, gState, xfer, nlog,
                               accepted, requested, outstanding, pure, ctx>>
           ELSE LET item == Item(tick, fmt_len, adj, nlog)
                    buffer == CopyToQueue(usart2_tx_dma_buffer, queue_tail, item)
                    tail == NewTail(queue_tail, log_length)
                    rd == restart_dma(queue_head, tail, last_dma_count,
                                      gState, xfer, buffer, zl)
                IN  /\ usart2_tx_dma_buffer' = buffer
                    /\ queue_tail' = tail
                    /\ last_dma_count' = rd.count
                    /\ gState' = rd.state
                    /\ xfer' = rd.xfer
                    /\ req' = rd.req
                    /\ requested' = IF rd.started
                                    THEN requested \o
                                         Slice(buffer, rd.xfer.off, rd.xfer.len)
                                    ELSE requested
                    /\ outstanding' = IF rd.started THEN outstanding + 1
                                      ELSE outstanding
                    /\ accepted' = accepted \o item
                    /\ nlog' = nlog + 1
                    /\ call' = [op |-> "logmsg", log_length |-> log_length,
                                count |-> rd.count, result |-> log_length]
                    /\ UNCHANGED <<queue_head, pure, ctx>>

\* the DMA transfer ends: the driver sets the UART ready and calls
\* HAL_UART_TxCpltCallback(huart), once for each transfer it started
HAL_UART_TxCpltCallback(zl) ==
    /\ gState = "BUSY_TX"
    /\ IF queue_head = queue_tail
       THEN /\ gState' = "READY"
            /\ xfer' = NoXfer
            /\ req' = NoReq
            /\ outstanding' = outstanding - 1
            /\ call' = [op |-> "TxCplt", log_length |-> 0, count |-> last_dma_count,
                        result |-> 0]
            /\ UNCHANGED <<queue_head, queue_tail, last_dma_count,
                           usart2_tx_dma_buffer, nlog, accepted, requested,
                           pure, ctx>>
       ELSE LET head == AdvanceHead(queue_head, last_dma_count)
                count == ResetCount(last_dma_count)
                rd == restart_dma(head, queue_tail, count, "READY", NoXfer,
                                  usart2_tx_dma_buffer, zl)
            IN  /\ queue_head' = head
                /\ last_dma_count' = rd.count
                /\ gState' = rd.state
                /\ xfer' = rd.xfer
                /\ req' = rd.req
                /\ requested' = IF rd.started
                                THEN requested \o
                                     Slice(usart2_tx_dma_buffer, rd.xfer.off,
                                           rd.xfer.len)
                                ELSE requested
                /\ outstanding' = IF rd.started THEN outstanding
                                  ELSE outstanding - 1
                /\ call' = [op |-> "TxCplt", log_length |-> 0, count |-> count,
                            result |-> 0]
                /\ UNCHANGED <<queue_tail, usart2_tx_dma_buffer, nlog,
                               accepted, pure, ctx>>

\* the memory after the compose buffer matters when the item reaches into it
AdjacentFor(tick, fmt_len) ==
    IF LogLength(TsLen(tick), fmt_len) > LOG_ITEM_MAX_SIZE
    THEN AdjacentBytes ELSE {NUL}

\* the driver's answer to Size 0 matters when restart_dma asks for 0 bytes
ZeroLenFor(head, tail) ==
    IF qty_to_send(head, tail) = 0 THEN ZeroLenOutcomes ELSE {"rejected"}

Next ==
    \/ \E tick \in Ticks, fmt_len \in FormatLens :
         \E adj \in AdjacentFor(tick, fmt_len),
            zl \in ZeroLenFor(queue_head,
                     NewTail(queue_tail, LogLength(TsLen(tick), fmt_len))) :
            logmsg(tick, fmt_len, adj, zl)
    \/ \E zl \in ZeroLenFor(AdvanceHead(queue_head, last_dma_count), queue_tail) :
         HAL_UART_TxCpltCallback(zl)

Spec == Init /\ [][Next]_vars

\* the completion interrupt is delivered for every transfer the driver started
FairSpec ==
    Spec /\ WF_vars(\E zl \in ZeroLenOutcomes : HAL_UART_TxCpltCallback(zl))

----------------------------------------------------------------------------
\* The space computations on every pair of indices

Indices == 0 .. (LOG_DMA_BUFFER_SIZE - 1)
Lengths == 1 .. LOG_DMA_BUFFER_SIZE

\* the indices and the length of one call
PureInit ==
    /\ log_init
    /\ pure \in {[f |-> "input", head |-> head, tail |-> tail,
                  len |-> log_length, out |-> 0, admitted |-> FALSE] :
                 head \in Indices, tail \in Indices, log_length \in Lengths}

\* a call queue_space_available(head, tail)
CallQueueSpaceAvailable ==
    /\ pure.f = "input"
    /\ pure' = [pure EXCEPT !.f = "queue_space_available",
                            !.out = queue_space_available(pure.head, pure.tail)]
    /\ UNCHANGED logvars

\* the admission check of logmsg with _queue_head = head, _queue_tail = tail
CallAdmission ==
    /\ pure.f = "input"
    /\ pure' = [pure EXCEPT !.f = "log_space_available",
                            !.out = log_space_available(pure.head, pure.tail),
                            !.admitted = Admits(pure.head, pure.tail, pure.len)]
    /\ UNCHANGED logvars

PureNext == CallQueueSpaceAvailable \/ CallAdmission

PureSpec == PureInit /\ [][PureNext]_vars

\* ---- the rendering of one item, on its own ----

\* tick values with timestamp prefixes of 4, 5 and 6 characters
RenderTicks == {7, 42, 123}

\* what vsnprintf returns: the length the text would have untruncated
RenderLens == 0 .. (LOG_MAX_TEXT + 1)

\* the tick, the text and the memory after the compose buffer of one call
RenderInit ==
    /\ log_init
    /\ pure \in {[f |-> "format", tick |-> tick, fmt_len |-> fmt_len,
                  adj |-> adj] :
                 tick \in RenderTicks, fmt_len \in RenderLens,
                 adj \in AdjacentBytes}

\* logmsg from the timestamp to the line feed: ts_len and log_length as
\* computed, nul the index of the null vsnprintf stored, lf the index the
\* line feed is stored at, item the bytes the copy reads
CallRender ==
    /\ pure.f = "format"
    /\ LET ts_len == TsLen(pure.tick)
           log_length == LogLength(ts_len, pure.fmt_len)
       IN  pure' = [f |-> "logmsg", tick |-> pure.tick,
                    fmt_len |-> pure.fmt_len, adj |-> pure.adj,
                    ts_len |-> ts_len, log_length |-> log_length,
                    nul |-> ts_len + TextStored(ts_len, pure.fmt_len),
                    lf |-> log_length - 1,
                    item |-> Item(pure.tick, pure.fmt_len, pure.adj, 0)]
    /\ UNCHANGED logvars

RenderNext == CallRender

RenderSpec == RenderInit /\ [][RenderNext]_vars

\* ---- logmsg statement by statement, open to preemption ----
\* Each step is one statement of logmsg, or the part of one that reads or
\* writes a volatile index. The completion handler runs as an interrupt, in
\* one step, between any two of them. With two producers the bytes copied
\* are those the producer rendered itself; a copy or a tail outside the
\* buffer ends the run (pc "fault").

\* the statements after the wrap test: log.c:170-173 when the item wraps
WrapOrder == <<"len_1", "copy_first", "copy_second", "tail_wrap", "restart_dma">>

\* and log.c:175-176 when it does not
NoWrapOrder == <<"copy_whole", "tail_load", "tail_store", "restart_dma">>

FirstStatement(wraps) == IF wraps THEN WrapOrder[1] ELSE NoWrapOrder[1]

\* the statement that follows pc
After(wraps, pc) ==
    LET order == IF wraps THEN WrapOrder ELSE NoWrapOrder
        i == CHOOSE j \in 1 .. Len(order) : order[j] = pc
    IN  order[i + 1]

\* log_space_available as log.c:157-158 computes it from the indices it reads
\* there, in the branch the comparison at 156 chose
SpaceAfterCompare(le, head, tail) ==
    U16(IF le THEN LOG_DMA_BUFFER_SIZE - (tail - head) - 1
        ELSE head - tail - 1)

\* memcpy(&_usart2_tx_dma_buffer[off], bytes, Len(bytes))
MemCpy(buffer, off, bytes) ==
    [i \in 0 .. (LOG_DMA_BUFFER_SIZE - 1) |->
        IF i >= off /\ i < off + Len(bytes) THEN bytes[i - off + 1]
        ELSE buffer[i]]

\* the tail of an item that wrapped set to the item's whole length
TailAfterWrap_WholeLength(log_length, len_1) == U16(log_length)

\* log.c:173: the value stored in _queue_tail
TailAfterWrap(log_length, len_1) == U16(log_length - len_1)

\* log.c:176: the value stored in _queue_tail, ld being the tail it read
TailAfterAdd(ld, log_length) == U16(ld + log_length)

\* the n buffer positions from off on, around the end of the buffer
Positions(off, n) == {(off + i) % LOG_DMA_BUFFER_SIZE : i \in 0 .. (n - 1)}

InLogmsg(p) == ctx[p].pc # "idle"

NoFault == \A p \in Producers : ctx[p].pc # "fault"

Returned(p) == [IdleCtx EXCEPT !.raced = ctx[p].raced]

Fault(p) == [ctx[p] EXCEPT !.pc = "fault"]

indices == <<queue_head, queue_tail, last_dma_count>>
engine == <<gState, xfer, requested, outstanding>>
ghosts == <<nlog, accepted, pure>>

\* log.c:132-154: producer p enters logmsg and renders its item, the
\* messages so far being fewer than max
LogmsgEnter(p, max, tick, fmt_len, adj) ==
    LET inside == {q \in Producers : InLogmsg(q)}
    IN  /\ NoFault
        /\ ctx[p].pc = "idle"
        /\ nlog + Cardinality(inside) < max
        /\ ctx' = [q \in Producers |->
                     IF q = p
                     THEN [IdleCtx EXCEPT
                             !.pc = "compare",
                             !.log_length = LogLength(TsLen(tick), fmt_len),
                             !.item = Item(tick, fmt_len, adj,
                                           nlog + Cardinality(inside)),
                             !.raced = ctx[p].raced \/ inside # {}]
                     ELSE [ctx[q] EXCEPT !.raced = @ \/ InLogmsg(q)]]
        /\ req' = NoReq
        /\ UNCHANGED <<indices, usart2_tx_dma_buffer, engine, ghosts, call>>

\* log.c:156: the comparison _queue_head <= _queue_tail
LogmsgCompare(p) ==
    /\ NoFault
    /\ ctx[p].pc = "compare"
    /\ ctx' = [ctx EXCEPT ![p].pc = "space",
                          ![p].le = (queue_head <= queue_tail)]
    /\ req' = NoReq
    /\ UNCHANGED <<indices, usart2_tx_dma_buffer, engine, ghosts, call>>

\* log.c:157-164: the subtraction, with the indices read again, the
\* admission test and the line feed
LogmsgSpace(p) ==
    LET space == SpaceAfterCompare(ctx[p].le, queue_head, queue_tail)
    IN  /\ NoFault
        /\ ctx[p].pc = "space"
        /\ IF ctx[p].log_length > space
           THEN /\ ctx' = [ctx EXCEPT ![p] = Returned(p)]
                /\ call' = [op |-> "logmsg", log_length |-> ctx[p].log_length,
                            count |-> last_dma_count, result |-> -1]
           ELSE /\ ctx' = [ctx EXCEPT
                             ![p].pc = "wrap_test",
                             ![p].space = space,
                             ![p].todo = Positions(queue_tail,
                                                   ctx[p].log_length)]
                /\ UNCHANGED call
        /\ req' = NoReq
        /\ UNCHANGED <<indices, usart2_tx_dma_buffer, engine, ghosts>>

\* log.c:168: the wrap test
LogmsgWrapTest(p) ==
    LET wraps == Wraps(queue_tail, ctx[p].log_length)
    IN  /\ NoFault
        /\ ctx[p].pc = "wrap_test"
        /\ ctx' = [ctx EXCEPT ![p].pc = FirstStatement(wraps),
                              ![p].wraps = wraps]
        /\ req' = NoReq
        /\ UNCHANGED <<indices, usart2_tx_dma_buffer, engine, ghosts, call>>

\* log.c:170: len_1
LogmsgLen1(p) ==
    /\ NoFault
    /\ ctx[p].pc = "len_1"
    /\ ctx' = [ctx EXCEPT ![p].pc = After(TRUE, "len_1"),
                          ![p].len_1 = U16(LOG_DMA_BUFFER_SIZE - queue_tail)]
    /\ req' = NoReq
    /\ UNCHANGED <<indices, usart2_tx_dma_buffer, engine, ghosts, call>>

\* log.c:171: the first part, to the end of the buffer
LogmsgCopyFirst(p) ==
    LET c == ctx[p]
    IN  /\ NoFault
        /\ c.pc = "copy_first"
        /\ IF c.len_1 > c.log_length
              \/ queue_tail + c.len_1 > LOG_DMA_BUFFER_SIZE
           THEN /\ ctx' = [ctx EXCEPT ![p] = Fault(p)]
                /\ UNCHANGED usart2_tx_dma_buffer
           ELSE /\ usart2_tx_dma_buffer' =
                       MemCpy(usart2_tx_dma_buffer, queue_tail,
                              SubSeq(c.item, 1, c.len_1))
                /\ ctx' = [ctx EXCEPT
                             ![p].pc = After(TRUE, "copy_first"),
                             ![p].todo = @ \ Positions(queue_tail, c.len_1)]
        /\ req' = NoReq
        /\ UNCHANGED <<indices, engine, ghosts, call>>

\* log.c:172: the second part, from the start of the buffer
LogmsgCopySecond(p) ==
    LET c == ctx[p]
    IN  /\ NoFault
        /\ c.pc = "copy_second"
        /\ IF c.len_1 > c.log_length
           THEN /\ ctx' = [ctx EXCEPT ![p] = Fault(p)]
                /\ UNCHANGED usart2_tx_dma_buffer
           ELSE /\ usart2_tx_dma_buffer' =
                       MemCpy(usart2_tx_dma_buffer, 0,
                              SubSeq(c.item, c.len_1 + 1, c.log_length))
                /\ ctx' = [ctx EXCEPT
                             ![p].pc = After(TRUE, "copy_second"),
                             ![p].todo = @ \ Positions(0, c.log_length
                                                          - c.len_1)]
        /\ req' = NoReq
        /\ UNCHANGED <<indices, engine, ghosts, call>>

\* log.c:173: the new tail of an item that wrapped
LogmsgTailWrap(p) ==
    LET tail == TailAfterWrap(ctx[p].log_length, ctx[p].len_1)
    IN  /\ NoFault
        /\ ctx[p].pc = "tail_wrap"
        /\ IF tail >= LOG_DMA_BUFFER_SIZE
           THEN /\ ctx' = [ctx EXCEPT ![p] = Fault(p)]
                /\ UNCHANGED queue_tail
           ELSE /\ queue_tail' = tail
                /\ ctx' = [ctx EXCEPT ![p].pc = After(TRUE, "tail_wrap")]
        /\ req' = NoReq
        /\ UNCHANGED <<queue_head, last_dma_count, usart2_tx_dma_buffer,
                       engine, ghosts, call>>

\* log.c:175: the whole item
LogmsgCopyWhole(p) ==
    LET c == ctx[p]
    IN  /\ NoFault
        /\ c.pc = "copy_whole"
        /\ IF queue_tail + c.log_length > LOG_DMA_BUFFER_SIZE
           THEN /\ ctx' = [ctx EXCEPT ![p] = Fault(p)]
                /\ UNCHANGED usart2_tx_dma_buffer
           ELSE /\ usart2_tx_dma_buffer' =
                       MemCpy(usart2_tx_dma_buffer, queue_tail, c.item)
                /\ ctx' = [ctx EXCEPT
                             ![p].pc = After(FALSE, "copy_whole"),
                             ![p].todo = @ \ Positions(queue_tail,
                                                       c.log_length)]
        /\ req' = NoReq
        /\ UNCHANGED <<indices, engine, ghosts, call>>

\* log.c:176: _queue_tail += log_length reads the tail
LogmsgTailLoad(p) ==
    /\ NoFault
    /\ ctx[p].pc = "tail_load"
    /\ ctx' = [ctx EXCEPT ![p].pc = After(FALSE, "tail_load"),
                          ![p].ld = queue_tail]
    /\ req' = NoReq
    /\ UNCHANGED <<indices, usart2_tx_dma_buffer, engine, ghosts, call>>

\* log.c:176: and writes it
LogmsgTailStore(p) ==
    LET tail == TailAfterAdd(ctx[p].ld, ctx[p].log_length)
    IN  /\ NoFault
        /\ ctx[p].pc = "tail_store"
        /\ IF tail >= LOG_DMA_BUFFER_SIZE
           THEN /\ ctx' = [ctx EXCEPT ![p] = Fault(p)]
                /\ UNCHANGED queue_tail
           ELSE /\ queue_tail' = tail
                /\ ctx' = [ctx EXCEPT ![p].pc = After(FALSE, "tail_store")]
        /\ req' = NoReq
        /\ UNCHANGED <<queue_head, last_dma_count, usart2_tx_dma_buffer,
                       engine, ghosts, call>>

\* log.c:180-182: restart_dma() and the return
LogmsgRestart(p, zl) ==
    LET c == ctx[p]
        rd == restart_dma(queue_head, queue_tail, last_dma_count, gState,
                          xfer, usart2_tx_dma_buffer, zl)
    IN  /\ NoFault
        /\ c.pc = "restart_dma"
        /\ last_dma_count' = rd.count
        /\ gState' = rd.state
        /\ xfer' = rd.xfer
        /\ req' = rd.req
        /\ requested' = IF rd.started
                        THEN requested \o
                             Slice(usart2_tx_dma_buffer, rd.xfer.off,
                                   rd.xfer.len)
                        ELSE requested
        /\ outstanding' = IF rd.started THEN outstanding + 1 ELSE outstanding
        /\ accepted' = accepted \o c.item
        /\ nlog' = nlog + 1
        /\ call' = [op |-> "logmsg", log_length |-> c.log_length,
                    count |-> rd.count, result |-> c.log_length]
        /\ ctx' = [ctx EXCEPT ![p] = Returned(p)]
        /\ UNCHANGED <<queue_head, queue_tail, usart2_tx_dma_buffer, pure>>

\* the statements of logmsg in producer p, entered at one of the given ticks
\* while the messages so far are fewer than max
Producer(p, max, ticks) ==
    \/ \E tick \in ticks, fmt_len \in FormatLens :
         \E adj \in AdjacentFor(tick, fmt_len) :
            LogmsgEnter(p, max, tick, fmt_len, adj)
    \/ LogmsgCompare(p)
    \/ LogmsgSpace(p)
    \/ LogmsgWrapTest(p)
    \/ LogmsgLen1(p)
    \/ LogmsgCopyFirst(p)
    \/ LogmsgCopySecond(p)
    \/ LogmsgTailWrap(p)
    \/ LogmsgCopyWhole(p)
    \/ LogmsgTailLoad(p)
    \/ LogmsgTailStore(p)
    \/ \E zl \in ZeroLenFor(queue_head, queue_tail) : LogmsgRestart(p, zl)

\* the completion interrupt, taken between two statements
Interrupt ==
    /\ NoFault
    /\ \E zl \in ZeroLenFor(AdvanceHead(queue_head, last_dma_count),
                            queue_tail) :
          HAL_UART_TxCpltCallback(zl)

\* one producer and the completion interrupt
PreemptNext == Producer(1, MaxPreemptMsgs, Ticks) \/ Interrupt

PreemptSpec == Init /\ [][PreemptNext]_vars

\* with two producers every call reads the same tick
RaceTicks == {7}

\* two producers that preempt each other, and the completion interrupt
RaceNext ==
    (\E p \in Producers : Producer(p, MaxRaceMsgs, RaceTicks)) \/ Interrupt

RaceSpec == Init /\ [][RaceNext]_vars

----------------------------------------------------------------------------
\* Properties

\* bytes queued between head and tail
Pending(head, tail) ==
    (tail - head + LOG_DMA_BUFFER_SIZE) % LOG_DMA_BUFFER_SIZE

\* free bytes, one slot kept empty
FreeSpace(head, tail) == LOG_DMA_BUFFER_SIZE - 1 - Pending(head, tail)

IsPrefix(s, t) ==
    /\ Len(s) <= Len(t)
    /\ \A i \in 1 .. Len(s) : s[i] = t[i]

\* C1: the bytes of the started transfers, in the order the transfers were
\* started, are a prefix of the bytes of the accepted messages in acceptance
\* order: nothing is duplicated, skipped or reordered.
C1_FifoPrefix == IsPrefix(requested, accepted)

\* more than a buffer's worth has been requested, across the physical end, while
\* a later message still waits behind a running transfer
C1_Witness ==
    /\ Len(requested) > LOG_DMA_BUFFER_SIZE
    /\ Len(requested) < Len(accepted)
    /\ gState = "BUSY_TX"

\* C2: the queue is never left non-empty with the UART idle, and with every
\* started transfer completing, the bytes requested catch up with the bytes
\* accepted again and again: every accepted byte is eventually requested
\* without a further logmsg call.
C2_NoRest == queue_head # queue_tail => gState = "BUSY_TX"

C3_IndexRange ==
    /\ queue_head \in 0 .. (LOG_DMA_BUFFER_SIZE - 1)
    /\ queue_tail \in 0 .. (LOG_DMA_BUFFER_SIZE - 1)

\* an enqueue ended at the last byte of the buffer and the transfer up to it
\* has completed: both indices wrapped to 0
C3_Witness ==
    /\ Len(accepted) = LOG_DMA_BUFFER_SIZE
    /\ Len(requested) = LOG_DMA_BUFFER_SIZE
    /\ call.op = "TxCplt"
    /\ gState = "READY"
    /\ queue_head = 0
    /\ queue_tail = 0

C5_QueueSpaceAvailableRange ==
    pure.f = "queue_space_available" =>
        /\ pure.out \in 0 .. (LOG_DMA_BUFFER_SIZE - 1)
        /\ (pure.out = LOG_DMA_BUFFER_SIZE - 1 <=> pure.head = pure.tail)

\* C6: the free space logmsg computes is
\* LOG_DMA_BUFFER_SIZE - 1 - ((tail - head + LOG_DMA_BUFFER_SIZE) mod
\* LOG_DMA_BUFFER_SIZE), and logmsg admits an item exactly when its length is
\* at most that.
C6_AdmissionFormula ==
    pure.f = "log_space_available" =>
        /\ pure.out = FreeSpace(pure.head, pure.tail)
        /\ (pure.admitted <=> pure.len <= FreeSpace(pure.head, pure.tail))

\* a wrapped queue admits an item that fills the free space exactly
C6_Witness ==
    /\ pure.f = "log_space_available"
    /\ pure.head > pure.tail
    /\ pure.admitted
    /\ pure.len = pure.out

\* C7: an accepted logmsg of n bytes from tail t leaves tail = (t + n) mod
\* LOG_DMA_BUFFER_SIZE with its bytes, in order, at (t + i) mod
\* LOG_DMA_BUFFER_SIZE, wrapped or not.
C7_CopyAtTail ==
    [][(/\ call'.op = "logmsg"
        /\ nlog' = nlog + 1)
       => LET n == call'.result
              item == SubSeq(accepted', Len(accepted) + 1, Len(accepted'))
          IN  /\ n = call'.log_length
              /\ Len(item) = n
              /\ queue_tail' = (queue_tail + n) % LOG_DMA_BUFFER_SIZE
              /\ \A i \in 0 .. (n - 1) :
                   usart2_tx_dma_buffer'[(queue_tail + i) % LOG_DMA_BUFFER_SIZE]
                       = item[i + 1]]_vars

\* an accepted message was split over the end and the front of the buffer
C7_Witness ==
    /\ call.op = "logmsg"
    /\ call.result > queue_tail
    /\ queue_tail > 0
    /\ accepted # <<>>

C9_RunnableLength ==
    req.made =>
        /\ req.off = req.head
        /\ req.len = Min(Pending(req.head, req.tail),
                         LOG_DMA_BUFFER_SIZE - req.head)
        /\ req.off + req.len <= LOG_DMA_BUFFER_SIZE

\* a request was cut at the end of the buffer with more bytes pending
C9_Witness ==
    /\ req.made
    /\ req.ok
    /\ req.len = LOG_DMA_BUFFER_SIZE - req.head
    /\ req.len < Pending(req.head, req.tail)

\* C10: at most one transfer is outstanding: restart_dma asks the driver for
\* nothing while the UART is busy, and a transfer is started only when none is
\* outstanding or by the completion handler of the previous one.
C10_OneOutstanding ==
    /\ [](/\ outstanding \in {0, 1}
          /\ (req.made => req.state = "READY"))
    /\ [][req'.ok => (outstanding = 0 \/ call'.op = "TxCplt")]_vars

\* logmsg accepted a message while a transfer was running and asked for none
C10_Witness ==
    /\ call.op = "logmsg"
    /\ call.result > 0
    /\ ~req.made
    /\ gState = "BUSY_TX"
    /\ outstanding = 1

\* C11: after log_init only the completion handler changes head and only
\* logmsg changes tail: a logmsg run, its restart_dma included, leaves head,
\* and a handler run, its restart_dma included, leaves tail.
C11_IndexOwners ==
    [][/\ call'.op = "logmsg" => queue_head' = queue_head
       /\ call'.op = "TxCplt" => queue_tail' = queue_tail]_vars

\* logmsg has queued a message and started its transfer with head where the
\* last completion left it, away from 0
C11_Witness ==
    /\ call.op = "logmsg"
    /\ call.result > 0
    /\ req.ok
    /\ queue_head > 0
    /\ queue_head = req.off

\* C12 as stated: last_dma_count is written only by the completion handler,
\* so no logmsg run changes its value.
C12_CountOnlyInHandler ==
    [][call'.op = "logmsg" => last_dma_count' = last_dma_count]_vars

\* C12, amended: a logmsg run changes last_dma_count only through the
\* restart_dma it calls, and only when it accepted its message and found the
\* engine ready: the count is then the length of the request made.  A
\* rejected message and a busy engine leave the count as it was.
C12_CountWrittenWhenArming ==
    [][call'.op = "logmsg" =>
          IF call'.result > 0 /\ gState = "READY"
          THEN req'.made /\ last_dma_count' = req'.len
          ELSE ~req'.made /\ last_dma_count' = last_dma_count]_vars

\* logmsg found the engine ready with count 0 and left the count at the
\* length of the transfer it started
C12_Witness ==
    /\ call.op = "logmsg"
    /\ req.ok
    /\ last_dma_count = req.len
    /\ last_dma_count > 0
    /\ outstanding = 1

\* the characters the timestamp and the text renderer stored, in order
Rendered(tick, fmt_len) ==
    [j \in 1 .. (TsLen(tick) + TextStored(TsLen(tick), fmt_len)) |->
        IF j <= TsLen(tick) THEN TsChar(tick, j - 1)
        ELSE TextChar(0, j - 1 - TsLen(tick))]

\* C13: for every timestamp prefix and every length the text would have,
\* the item's total length (prefix, text, line feed) is at most
\* LOG_ITEM_MAX_SIZE, so the line feed is stored inside the compose buffer
\* and the copy reads nothing beyond it.
C13_ItemFitsComposeBuffer ==
    pure.f = "logmsg" =>
        /\ pure.log_length <= LOG_ITEM_MAX_SIZE
        /\ pure.lf < LOG_ITEM_MAX_SIZE

\* C14: the line feed is stored at the index of the renderer's null, so the
\* item is the rendered characters followed by one line feed, with no null
\* and no other byte between them, truncated text included.
C14_LineFeedReplacesNull ==
    pure.f = "logmsg" =>
        /\ pure.lf = pure.nul
        /\ pure.item = Rendered(pure.tick, pure.fmt_len) \o <<LF>>

C16_ZeroLengthRequest ==
    [][(/\ call'.op = "TxCplt"
        /\ queue_head # queue_tail
        /\ queue_head' = queue_tail') =>
           /\ req'.made
           /\ req'.state = "READY"
           /\ req'.len = 0
           /\ req'.off = queue_head'
           /\ req'.head = queue_head'
           /\ req'.tail = queue_tail
           /\ queue_tail' = queue_tail
           /\ last_dma_count' = 0
           /\ \A zl \in ZeroLenOutcomes :
                 restart_dma(queue_head', queue_tail', 0, "READY", NoXfer,
                             usart2_tx_dma_buffer', zl).ret = 0]_vars

\* the handler has drained a queue that had wrapped, and its request of
\* length 0 was made and refused
C16_Witness ==
    /\ call.op = "TxCplt"
    /\ queue_head = queue_tail
    /\ req.made
    /\ req.len = 0
    /\ ~req.ok
    /\ gState = "READY"
    /\ Len(requested) > LOG_DMA_BUFFER_SIZE

\* C17: logmsg has no mutual exclusion, so with two producers that preempt
\* each other a lost update is reached (C17_Witness): both calls return
\* success and tail is advanced by less than the two lengths together. It
\* takes the overlap: as long as no call ran while another producer was
\* inside logmsg, tail is the sum of the accepted lengths, modulo
\* LOG_DMA_BUFFER_SIZE, whenever both producers are outside logmsg.
C17_LostUpdateNeedsOverlap ==
    (\A p \in Producers : ctx[p].pc = "idle" /\ ~ctx[p].raced) =>
        queue_tail = Len(accepted) % LOG_DMA_BUFFER_SIZE

\* two calls have overlapped and returned their lengths, and tail is short
\* of the sum of the two
C17_Witness ==
    /\ \A p \in Producers : ctx[p].pc = "idle" /\ ctx[p].raced
    /\ nlog = 2
    /\ call.result > 0
    /\ Len(accepted) < LOG_DMA_BUFFER_SIZE
    /\ queue_tail < Len(accepted)

\* C18: with one producer and the completion handler preempting logmsg
\* between its reads of head and tail, the log_space_available an accepted
\* message was admitted on is never more than the free space while the
\* message is copied, and none of the positions it is copied to holds a
\* pending byte.
C18_SpaceWithinFreeSpace ==
    ctx[1].pc \in {"wrap_test", "len_1", "copy_first", "copy_second",
                   "copy_whole"} =>
        /\ ctx[1].space <= FreeSpace(queue_head, queue_tail)
        /\ ctx[1].todo \cap Positions(queue_head,
                                      Pending(queue_head, queue_tail)) = {}

\* C19: whenever a transfer of nonzero length is outstanding,
\* last_dma_count is its length, head is its offset and last_dma_count is at
\* most the pending bytes; so the handler's early return on head = tail is
\* never taken when a transfer of nonzero length completes.
C19_CountMatchesTransfer ==
    /\ [](gState = "BUSY_TX" /\ xfer.len > 0 =>
             /\ last_dma_count = xfer.len
             /\ queue_head = xfer.off
             /\ last_dma_count <= Pending(queue_head, queue_tail))
    /\ [][(call'.op = "TxCplt" /\ ctx' = ctx /\ xfer.len > 0) =>
             queue_head # queue_tail]_vars

\* C20: logmsg writes the new tail only after it has copied every byte of
\* the item, both parts when it wraps, so no request, the handler's
\* included, is ever for a position the item is still to be copied to.
C20_TailAfterCopy ==
    [][/\ queue_tail' # queue_tail => \A p \in Producers : ctx[p].todo = {}
       /\ req'.made =>
             \A p \in Producers :
                Positions(req'.off, req'.len) \cap ctx'[p].todo = {}]_vars

====
